---- MODULE Spec2Model ----
(***************************************************************************)
(* The port state engine of statime: the PortState dispatcher              *)
(* (port/state/mod.rs), the MasterState role (port/state/master.rs) and    *)
(* the message constructors, time conversions and SlaveState they call.    *)
(***************************************************************************)
EXTENDS Integers, Sequences, FiniteSets, TLC

(***************************************************************************)
(* Bounds of the model.                                                    *)
(***************************************************************************)
\* ids one sequence generator hands out after its starting value
MaxSends == 2
\* time-critical sends whose egress timestamp the I/O layer still owes
MaxOutstanding == 2

(***************************************************************************)
(* Integer widths.                                                         *)
(***************************************************************************)
U16 == 65536
NanosPerSecond == 1000000000
\* 2^16: the fractional bits of Time (U96F32) that TimeInterval (I48F16) lacks
SubnanoShift == 65536

\* Option<u16>::None in the bookkeeping of emitted sequence ids
NoId == 0 - 1

(***************************************************************************)
(* time.rs: Time is a U96F32 count of nanoseconds: nanos is its integer    *)
(* part, frac its 32 fractional bits.                                      *)
(***************************************************************************)
Time(nanos, frac) == [nanos |-> nanos, frac |-> frac]

\* Time::from_micros
Time_from_micros(us) == Time(us * 1000, 0)

\* impl From<Time> for WireTimestamp: whole nanoseconds only
WireTimestamp_from(t) ==
    [seconds |-> t.nanos \div NanosPerSecond, nanos |-> t.nanos % NanosPerSecond]

\* Time::subnano: the fraction as I48F16 bits, the low 16 bits dropped
Time_subnano(t) == t.frac \div SubnanoShift

\* impl From<WireTimestamp> for Time
Time_from_wire(w) == Time(w.seconds * NanosPerSecond + w.nanos, 0)

(***************************************************************************)
(* port/sequence_id.rs: SequenceIdGenerator, a wrapping u16.               *)
(***************************************************************************)
SequenceIdGenerator_new == 0

\* generate(): <<the id returned, the generator afterwards>>
SequenceIdGenerator_generate(cur) == <<cur, (cur + 1) % U16>>

(***************************************************************************)
(* datastructures/messages: the messages and their constructors.  A        *)
(* message is [type, header, body]; timestamps in a body are               *)
(* WireTimestamps, correction fields are I48F16 bits.                      *)
(***************************************************************************)
HeaderLen == 34

\* Header::default() with the fields the engine sets
Header(seq_id, source, correction, log_interval, two_step) ==
    [sequence_id |-> seq_id,
     source_port_identity |-> source,
     correction_field |-> correction,
     log_message_interval |-> log_interval,
     two_step_flag |-> two_step]

\* PortIdentity { clock_identity, port_number }
PortIdentity(clock, port) == [clock_identity |-> clock, port_number |-> port]

PortIdentity_default == PortIdentity(0, 0)

\* Interval::from_log_2 / Interval::as_log_2: an Interval is its log2 seconds
Interval_from_log_2(l) == [log_2 |-> l]

Interval_as_log_2(i) == i.log_2

\* Interval::as_core_duration, in whole seconds (log2 >= 0 here)
Interval_as_core_duration(i) == 2 ^ i.log_2

\* DelayReqMessage::content_size and the other bodies' sizes
content_size(msg) ==
    CASE msg.type = "DelayReq" -> 10
      [] msg.type = "Sync" -> 10
      [] msg.type = "FollowUp" -> 10
      [] msg.type = "DelayResp" -> 20
      [] msg.type = "Announce" -> 30

\* Message::serialize into a buffer of buflen bytes: the length written, or
\* BufferTooShort
Message_serialize(msg, buflen) ==
    IF buflen < HeaderLen + content_size(msg)
    THEN [ok |-> FALSE, length |-> 0]
    ELSE [ok |-> TRUE, length |-> HeaderLen + content_size(msg)]

\* &buffer[..packet_length] after a successful serialize of msg: the bytes
\* that Message::deserialize reads back as msg
Data(msg, length) == [length |-> length, msg |-> msg]

\* Message::sync
Message_sync(default_ds, port_identity, seq_id, timestamp) ==
    [type |-> "Sync",
     header |-> Header(seq_id, port_identity, 0, 0, TRUE),
     body |-> [origin_timestamp |-> WireTimestamp_from(timestamp)]]

\* Message::follow_up
Message_follow_up(default_ds, port_identity, seq_id, timestamp) ==
    [type |-> "FollowUp",
     header |-> Header(seq_id, port_identity, Time_subnano(timestamp), 0, FALSE),
     body |-> [precise_origin_timestamp |-> WireTimestamp_from(timestamp)]]

\* Message::announce
Message_announce(global, port_identity, seq_id, timestamp) ==
    [type |-> "Announce",
     header |-> Header(seq_id, port_identity, 0, 0, FALSE),
     body |-> [origin_timestamp |-> WireTimestamp_from(timestamp),
               grandmaster_priority_1 |-> global.parent_ds.grandmaster_priority_1]]

\* Message::delay_resp
Message_delay_resp(request, port_identity, min_delay_req_interval, timestamp) ==
    [type |-> "DelayResp",
     header |-> Header(request.header.sequence_id,
                       port_identity,
                       request.header.correction_field + Time_subnano(timestamp),
                       Interval_as_log_2(min_delay_req_interval),
                       FALSE),
     body |-> [receive_timestamp |-> WireTimestamp_from(timestamp),
               requesting_port_identity |-> request.header.source_port_identity]]

\* Message::delay_req
Message_delay_req(default_ds, port_identity, seq_id) ==
    [type |-> "DelayReq",
     header |-> Header(seq_id, port_identity, 0, 0, FALSE),
     body |-> [origin_timestamp |-> WireTimestamp_from(Time_from_micros(0))]]

(***************************************************************************)
(* datastructures: the wire codec of a DelayReq body.  On the wire a       *)
(* WireTimestamp is { seconds: u64, nanos: u32 }; an unsigned integer is   *)
(* kept as its 16-bit limbs, most significant first, so that all of its    *)
(* range is there.                                                         *)
(***************************************************************************)
\* the u64 and the u32 of a number below 2^31
U64(n) == <<0, 0, n \div U16, n % U16>>

U32(n) == <<n \div U16, n % U16>>

\* uN::to_be_bytes
to_be_bytes(limbs) ==
    [i \in 1 .. 2 * Len(limbs) |->
        IF i % 2 = 1 THEN limbs[(i + 1) \div 2] \div 256 ELSE limbs[i \div 2] % 256]

\* uN::from_be_bytes
from_be_bytes(bytes) ==
    [i \in 1 .. Len(bytes) \div 2 |-> bytes[2 * i - 1] * 256 + bytes[2 * i]]

\* WireTimestamp::serialize into a slice of 10 bytes: the low 48 bits of the
\* seconds, then the nanoseconds
WireTimestamp_serialize(self) ==
    SubSeq(to_be_bytes(self.seconds), 3, 8) \o to_be_bytes(self.nanos)

\* WireTimestamp::deserialize from a slice of 10 bytes
WireTimestamp_deserialize(slice) ==
    [seconds |-> from_be_bytes(<<0, 0>> \o SubSeq(slice, 1, 6)),
     nanos |-> from_be_bytes(SubSeq(slice, 7, 10))]

DelayReqMessage(header, origin_timestamp) ==
    [header |-> header, origin_timestamp |-> origin_timestamp]

\* serialize_content: &mut buffer[0..10] panics on a shorter buffer
DelayReqMessage_serialize_content(self, buffer) ==
    IF Len(buffer) < 10
    THEN [result |-> "panic", buffer |-> buffer]
    ELSE [result |-> "Ok",
          buffer |-> WireTimestamp_serialize(self.origin_timestamp)
                     \o SubSeq(buffer, 11, Len(buffer))]

\* mutant: the message is built on Header::default(), not on the header given
DelayReqMessage_deserialize_content_default_header(header, buffer) ==
    IF Len(buffer) < 10
    THEN [result |-> "BufferTooShort"]
    ELSE [result |-> "Ok",
          message |-> DelayReqMessage(Header(0, PortIdentity_default, 0, 0, FALSE),
                                      WireTimestamp_deserialize(SubSeq(buffer, 1, 10)))]

\* deserialize_content: buffer.get(0..10), or BufferTooShort
DelayReqMessage_deserialize_content(header, buffer) ==
    IF Len(buffer) < 10
    THEN [result |-> "BufferTooShort"]
    ELSE [result |-> "Ok",
          message |-> DelayReqMessage(header,
                                      WireTimestamp_deserialize(SubSeq(buffer, 1, 10)))]

(***************************************************************************)
(* port: TimestampContext and PortAction.                                  *)
(***************************************************************************)
\* TimestampContext { inner: TimestampContextInner::Sync { id } }
Context_Sync(id) == [kind |-> "Sync", id |-> id]

\* TimestampContext { inner: TimestampContextInner::DelayReq { id } }
Context_DelayReq(id) == [kind |-> "DelayReq", id |-> id]

ResetSyncTimer(duration) == [action |-> "ResetSyncTimer", duration |-> duration]

ResetAnnounceTimer(duration) == [action |-> "ResetAnnounceTimer", duration |-> duration]

ResetDelayRequestTimer(duration) ==
    [action |-> "ResetDelayRequestTimer", duration |-> duration]

SendTimeCritical(context, data) ==
    [action |-> "SendTimeCritical", context |-> context, data |-> data]

SendGeneral(data) == [action |-> "SendGeneral", data |-> data]

\* what a method hands back: the state it leaves and the actions it returns
Outcome(state, acts) == [state |-> state, actions |-> acts]

(***************************************************************************)
(* The shared clock: AtomicRefCell<impl Clock>.  try_borrow fails while    *)
(* the cell is exclusively borrowed.                                       *)
(***************************************************************************)
AtomicRefCell(borrowed_mut, current_time) ==
    [borrowed_mut |-> borrowed_mut, current_time |-> current_time]

\* local_clock.try_borrow().map(|borrow| borrow.now())
try_borrow_now(cell) ==
    IF cell.borrowed_mut
    THEN [ok |-> FALSE, time |-> Time(0, 0)]
    ELSE [ok |-> TRUE, time |-> cell.current_time]

(***************************************************************************)
(* port/state/master.rs: MasterState.                                      *)
(***************************************************************************)
MasterState(announce, sync) == [announce_seq_ids |-> announce, sync_seq_ids |-> sync]

MasterState_new == MasterState(SequenceIdGenerator_new, SequenceIdGenerator_new)

\* mutant: the FollowUp is numbered from the generator, not from the context
MasterState_handle_sync_timestamp_current_id(self, id, timestamp, port_identity, default_ds, buflen) ==
    LET msg == Message_follow_up(default_ds, port_identity, self.sync_seq_ids, timestamp)
        packet == Message_serialize(msg, buflen)
    IN  IF ~packet.ok
        THEN Outcome(self, <<>>)
        ELSE Outcome(self, <<SendGeneral(Data(msg, packet.length))>>)

\* mutant: the egress time is cut to whole nanoseconds before it is used
MasterState_handle_sync_timestamp_whole_nanos(self, id, timestamp, port_identity, default_ds, buflen) ==
    LET msg == Message_follow_up(default_ds, port_identity, id, Time(timestamp.nanos, 0))
        packet == Message_serialize(msg, buflen)
    IN  IF ~packet.ok
        THEN Outcome(self, <<>>)
        ELSE Outcome(self, <<SendGeneral(Data(msg, packet.length))>>)

MasterState_handle_sync_timestamp(self, id, timestamp, port_identity, default_ds, buflen) ==
    LET msg == Message_follow_up(default_ds, port_identity, id, timestamp)
        packet == Message_serialize(msg, buflen)
    IN  IF ~packet.ok
        THEN Outcome(self, <<>>)
        ELSE Outcome(self, <<SendGeneral(Data(msg, packet.length))>>)

\* mutant: the id of any context is taken for a Sync's
MasterState_handle_timestamp_any_context(self, context, timestamp, port_identity, default_ds, buflen) ==
    MasterState_handle_sync_timestamp(self, context.id, timestamp, port_identity,
                                      default_ds, buflen)

MasterState_handle_timestamp(self, context, timestamp, port_identity, default_ds, buflen) ==
    IF context.kind = "Sync"
    THEN MasterState_handle_sync_timestamp(self, context.id, timestamp, port_identity,
                                           default_ds, buflen)
    ELSE Outcome(self, <<>>)

\* mutant: the context is minted from the generator after it advanced
MasterState_send_sync_stale_context(self, local_clock, config, port_identity, default_ds, buflen) ==
    LET current_time == try_borrow_now(local_clock)
        gen == SequenceIdGenerator_generate(self.sync_seq_ids)
        after == [self EXCEPT !.sync_seq_ids = gen[2]]
        msg == Message_sync(default_ds, port_identity, gen[1], current_time.time)
        packet == Message_serialize(msg, buflen)
    IN  IF ~current_time.ok
        THEN Outcome(self, <<>>)
        ELSE IF ~packet.ok
        THEN Outcome(after, <<>>)
        ELSE Outcome(after,
                     <<ResetSyncTimer(Interval_as_core_duration(config.sync_interval)),
                       SendTimeCritical(Context_Sync(gen[2]), Data(msg, packet.length))>>)

\* mutant: the id is read from the generator without advancing it
MasterState_send_sync_id_not_consumed(self, local_clock, config, port_identity, default_ds, buflen) ==
    LET current_time == try_borrow_now(local_clock)
        seq_id == self.sync_seq_ids
        msg == Message_sync(default_ds, port_identity, seq_id, current_time.time)
        packet == Message_serialize(msg, buflen)
    IN  IF ~current_time.ok \/ ~packet.ok
        THEN Outcome(self, <<>>)
        ELSE Outcome(self,
                     <<ResetSyncTimer(Interval_as_core_duration(config.sync_interval)),
                       SendTimeCritical(Context_Sync(seq_id), Data(msg, packet.length))>>)

\* mutant: the id is generated before the clock is borrowed
MasterState_send_sync_id_before_clock(self, local_clock, config, port_identity, default_ds, buflen) ==
    LET current_time == try_borrow_now(local_clock)
        gen == SequenceIdGenerator_generate(self.sync_seq_ids)
        seq_id == gen[1]
        after == [self EXCEPT !.sync_seq_ids = gen[2]]
        msg == Message_sync(default_ds, port_identity, seq_id, current_time.time)
        packet == Message_serialize(msg, buflen)
    IN  IF ~current_time.ok \/ ~packet.ok
        THEN Outcome(after, <<>>)
        ELSE Outcome(after,
                     <<ResetSyncTimer(Interval_as_core_duration(config.sync_interval)),
                       SendTimeCritical(Context_Sync(seq_id), Data(msg, packet.length))>>)

\* mutant: the generator advances only once the Sync is serialized
MasterState_send_sync_id_on_success(self, local_clock, config, port_identity, default_ds, buflen) ==
    LET current_time == try_borrow_now(local_clock)
        gen == SequenceIdGenerator_generate(self.sync_seq_ids)
        seq_id == gen[1]
        after == [self EXCEPT !.sync_seq_ids = gen[2]]
        msg == Message_sync(default_ds, port_identity, seq_id, current_time.time)
        packet == Message_serialize(msg, buflen)
    IN  IF ~current_time.ok \/ ~packet.ok
        THEN Outcome(self, <<>>)
        ELSE Outcome(after,
                     <<ResetSyncTimer(Interval_as_core_duration(config.sync_interval)),
                       SendTimeCritical(Context_Sync(seq_id), Data(msg, packet.length))>>)

\* mutant: the Sync goes out first and the timer is reset after it
MasterState_send_sync_timer_last(self, local_clock, config, port_identity, default_ds, buflen) ==
    LET current_time == try_borrow_now(local_clock)
        gen == SequenceIdGenerator_generate(self.sync_seq_ids)
        seq_id == gen[1]
        after == [self EXCEPT !.sync_seq_ids = gen[2]]
        msg == Message_sync(default_ds, port_identity, seq_id, current_time.time)
        packet == Message_serialize(msg, buflen)
    IN  IF ~current_time.ok
        THEN Outcome(self, <<>>)
        ELSE IF ~packet.ok
        THEN Outcome(after, <<>>)
        ELSE Outcome(after,
                     <<SendTimeCritical(Context_Sync(seq_id), Data(msg, packet.length)),
                       ResetSyncTimer(Interval_as_core_duration(config.sync_interval))>>)

\* mutant: generate() is called once for the message and once more for the context
MasterState_send_sync_generates_twice(self, local_clock, config, port_identity, default_ds, buflen) ==
    LET current_time == try_borrow_now(local_clock)
        gen == SequenceIdGenerator_generate(self.sync_seq_ids)
        again == SequenceIdGenerator_generate(gen[2])
        msg == Message_sync(default_ds, port_identity, gen[1], current_time.time)
        packet == Message_serialize(msg, buflen)
    IN  IF ~current_time.ok
        THEN Outcome(self, <<>>)
        ELSE IF ~packet.ok
        THEN Outcome([self EXCEPT !.sync_seq_ids = gen[2]], <<>>)
        ELSE Outcome([self EXCEPT !.sync_seq_ids = again[2]],
                     <<ResetSyncTimer(Interval_as_core_duration(config.sync_interval)),
                       SendTimeCritical(Context_Sync(again[1]), Data(msg, packet.length))>>)

MasterState_send_sync(self, local_clock, config, port_identity, default_ds, buflen) ==
    LET current_time == try_borrow_now(local_clock)
        gen == SequenceIdGenerator_generate(self.sync_seq_ids)
        seq_id == gen[1]
        after == [self EXCEPT !.sync_seq_ids = gen[2]]
        msg == Message_sync(default_ds, port_identity, seq_id, current_time.time)
        packet == Message_serialize(msg, buflen)
    IN  IF ~current_time.ok
        THEN Outcome(self, <<>>)
        ELSE IF ~packet.ok
        THEN Outcome(after, <<>>)
        ELSE Outcome(after,
                     <<ResetSyncTimer(Interval_as_core_duration(config.sync_interval)),
                       SendTimeCritical(Context_Sync(seq_id), Data(msg, packet.length))>>)

\* mutant: the Announce is numbered from the sync generator
MasterState_send_announce_sync_generator(self, global, config, port_identity, buflen) ==
    LET current_time == try_borrow_now(global.local_clock)
        gen == SequenceIdGenerator_generate(self.sync_seq_ids)
        after == [self EXCEPT !.sync_seq_ids = gen[2]]
        msg == Message_announce(global, port_identity, gen[1], current_time.time)
        packet == Message_serialize(msg, buflen)
    IN  IF ~current_time.ok
        THEN Outcome(self, <<>>)
        ELSE IF ~packet.ok
        THEN Outcome(after, <<>>)
        ELSE Outcome(after,
                     <<ResetAnnounceTimer(Interval_as_core_duration(config.announce_interval)),
                       SendGeneral(Data(msg, packet.length))>>)

\* mutant: the announce timer is reset although the Announce did not fit the buffer
MasterState_send_announce_rearms_unsent(self, global, config, port_identity, buflen) ==
    LET current_time == try_borrow_now(global.local_clock)
        gen == SequenceIdGenerator_generate(self.announce_seq_ids)
        after == [self EXCEPT !.announce_seq_ids = gen[2]]
        msg == Message_announce(global, port_identity, gen[1], current_time.time)
        packet == Message_serialize(msg, buflen)
    IN  IF ~current_time.ok
        THEN Outcome(self, <<>>)
        ELSE IF ~packet.ok
        THEN Outcome(after,
                     <<ResetAnnounceTimer(Interval_as_core_duration(config.announce_interval))>>)
        ELSE Outcome(after,
                     <<ResetAnnounceTimer(Interval_as_core_duration(config.announce_interval)),
                       SendGeneral(Data(msg, packet.length))>>)

MasterState_send_announce(self, global, config, port_identity, buflen) ==
    LET current_time == try_borrow_now(global.local_clock)
        gen == SequenceIdGenerator_generate(self.announce_seq_ids)
        after == [self EXCEPT !.announce_seq_ids = gen[2]]
        msg == Message_announce(global, port_identity, gen[1], current_time.time)
        packet == Message_serialize(msg, buflen)
    IN  IF ~current_time.ok
        THEN Outcome(self, <<>>)
        ELSE IF ~packet.ok
        THEN Outcome(after, <<>>)
        ELSE Outcome(after,
                     <<ResetAnnounceTimer(Interval_as_core_duration(config.announce_interval)),
                       SendGeneral(Data(msg, packet.length))>>)

\* mutant: the response names the port itself as the requester
MasterState_handle_delay_req_own_identity(self, message, timestamp, min_delay_req_interval, port_identity, buflen) ==
    LET own == [message EXCEPT !.header.source_port_identity = port_identity]
        delay_resp_message ==
            Message_delay_resp(own, port_identity, min_delay_req_interval, timestamp)
        packet == Message_serialize(delay_resp_message, buflen)
    IN  IF ~packet.ok
        THEN Outcome(self, <<>>)
        ELSE Outcome(self, <<SendGeneral(Data(delay_resp_message, packet.length))>>)

\* mutant: the ingress time is cut to whole nanoseconds before it is used
MasterState_handle_delay_req_whole_nanos(self, message, timestamp, min_delay_req_interval, port_identity, buflen) ==
    LET delay_resp_message ==
            Message_delay_resp(message, port_identity, min_delay_req_interval,
                               Time(timestamp.nanos, 0))
        packet == Message_serialize(delay_resp_message, buflen)
    IN  IF ~packet.ok
        THEN Outcome(self, <<>>)
        ELSE Outcome(self, <<SendGeneral(Data(delay_resp_message, packet.length))>>)

\* mutant: the request's own correction is not carried into the response
MasterState_handle_delay_req_drops_correction(self, message, timestamp, min_delay_req_interval, port_identity, buflen) ==
    LET bare == [message EXCEPT !.header.correction_field = 0]
        delay_resp_message ==
            Message_delay_resp(bare, port_identity, min_delay_req_interval, timestamp)
        packet == Message_serialize(delay_resp_message, buflen)
    IN  IF ~packet.ok
        THEN Outcome(self, <<>>)
        ELSE Outcome(self, <<SendGeneral(Data(delay_resp_message, packet.length))>>)

\* mutant: the response is numbered from the sync generator
MasterState_handle_delay_req_draws_id(self, message, timestamp, min_delay_req_interval, port_identity, buflen) ==
    LET gen == SequenceIdGenerator_generate(self.sync_seq_ids)
        numbered == [message EXCEPT !.header.sequence_id = gen[1]]
        delay_resp_message ==
            Message_delay_resp(numbered, port_identity, min_delay_req_interval, timestamp)
        packet == Message_serialize(delay_resp_message, buflen)
        after == [self EXCEPT !.sync_seq_ids = gen[2]]
    IN  IF ~packet.ok
        THEN Outcome(after, <<>>)
        ELSE Outcome(after, <<SendGeneral(Data(delay_resp_message, packet.length))>>)

MasterState_handle_delay_req(self, message, timestamp, min_delay_req_interval, port_identity, buflen) ==
    LET delay_resp_message ==
            Message_delay_resp(message, port_identity, min_delay_req_interval, timestamp)
        packet == Message_serialize(delay_resp_message, buflen)
    IN  IF ~packet.ok
        THEN Outcome(self, <<>>)
        ELSE Outcome(self, <<SendGeneral(Data(delay_resp_message, packet.length))>>)

\* mutant: no check for the port's own messages
MasterState_handle_event_receive_no_echo_check(self, message, timestamp, min_delay_req_interval, port_identity, buflen) ==
    IF message.type = "DelayReq"
    THEN MasterState_handle_delay_req(self, message, timestamp, min_delay_req_interval,
                                      port_identity, buflen)
    ELSE Outcome(self, <<>>)

\* mutant: every message of another port is answered like a DelayReq
MasterState_handle_event_receive_answers_all(self, message, timestamp, min_delay_req_interval, port_identity, buflen) ==
    IF message.header.source_port_identity = port_identity
    THEN Outcome(self, <<>>)
    ELSE MasterState_handle_delay_req(self, message, timestamp, min_delay_req_interval,
                                      port_identity, buflen)

MasterState_handle_event_receive(self, message, timestamp, min_delay_req_interval, port_identity, buflen) ==
    IF message.header.source_port_identity = port_identity
    THEN Outcome(self, <<>>)
    ELSE IF message.type = "DelayReq"
    THEN MasterState_handle_delay_req(self, message, timestamp, min_delay_req_interval,
                                      port_identity, buflen)
    ELSE Outcome(self, <<>>)

(***************************************************************************)
(* port/state/slave.rs: SlaveState, as far as the dispatcher drives it:    *)
(* the last Sync (Waiting, HaveSync awaiting its FollowUp, SyncComplete),  *)
(* the DelayReq exchange (Idle, AwaitTimestamp, AwaitResp, Known) and the  *)
(* DelayReq sequence generator.                                            *)
(***************************************************************************)
SlaveState_new ==
    [delay_req_ids |-> SequenceIdGenerator_new,
     sync |-> "Waiting", sync_id |-> NoId,
     delay |-> "Idle", delay_id |-> NoId]

SlaveState_handle_timestamp(self, context, timestamp) ==
    IF context.kind = "DelayReq" /\ self.delay = "AwaitTimestamp"
       /\ context.id = self.delay_id
    THEN Outcome([self EXCEPT !.delay = "AwaitResp"], <<>>)
    ELSE Outcome(self, <<>>)

SlaveState_handle_event_receive(self, message, timestamp) ==
    IF message.type = "Sync"
    THEN Outcome([self EXCEPT
                    !.sync = IF message.header.two_step_flag
                             THEN "HaveSync" ELSE "SyncComplete",
                    !.sync_id = message.header.sequence_id], <<>>)
    ELSE Outcome(self, <<>>)

SlaveState_handle_general_receive(self, message, port_identity) ==
    CASE message.type = "FollowUp" /\ self.sync = "HaveSync"
         /\ message.header.sequence_id = self.sync_id ->
            [self EXCEPT !.sync = "SyncComplete"]
      [] message.type = "DelayResp" /\ self.delay = "AwaitResp"
         /\ message.body.requesting_port_identity = port_identity
         /\ message.header.sequence_id = self.delay_id ->
            [self EXCEPT !.delay = "Known"]
      [] OTHER -> self

SlaveState_send_delay_request(self, jitter, port_config, port_identity, default_ds, buflen) ==
    LET gen == SequenceIdGenerator_generate(self.delay_req_ids)
        msg == Message_delay_req(default_ds, port_identity, gen[1])
        packet == Message_serialize(msg, buflen)
        after == [self EXCEPT !.delay_req_ids = gen[2]]
    IN  IF ~packet.ok
        THEN Outcome(after, <<>>)
        ELSE Outcome([after EXCEPT !.delay = "AwaitTimestamp", !.delay_id = gen[1]],
                     <<ResetDelayRequestTimer(jitter),
                       SendTimeCritical(Context_DelayReq(gen[1]),
                                        Data(msg, packet.length))>>)

\* <<the state left, whether a Measurement is returned>>
SlaveState_extract_measurement(self) ==
    IF self.sync = "SyncComplete" /\ self.delay = "Known"
    THEN <<[self EXCEPT !.sync = "Waiting", !.sync_id = NoId], TRUE>>
    ELSE <<self, FALSE>>

(***************************************************************************)
(* port/state/mod.rs: PortState, the tagged union, and its dispatch.       *)
(***************************************************************************)
Listening == [tag |-> "Listening"]

Passive == [tag |-> "Passive"]

Master(master) == [tag |-> "Master", master |-> master]

Slave(slave) == [tag |-> "Slave", slave |-> slave]

\* #[default] Listening
PortState_default == Listening

\* a role's Outcome as the dispatcher's: the variant keeps its tag
InMaster(out) == Outcome(Master(out.state), out.actions)

InSlave(out) == Outcome(Slave(out.state), out.actions)

PortState_handle_timestamp(self, context, timestamp, port_identity, default_ds, buflen) ==
    CASE self.tag = "Slave" ->
            InSlave(SlaveState_handle_timestamp(self.slave, context, timestamp))
      [] self.tag = "Master" ->
            InMaster(MasterState_handle_timestamp(self.master, context, timestamp,
                                                  port_identity, default_ds, buflen))
      [] self.tag \in {"Listening", "Passive"} -> Outcome(self, <<>>)

\* mutant: a Passive port answers like a Master
PortState_handle_event_receive_passive_answers(self, message, timestamp, min_delay_req_interval, port_identity, buflen) ==
    CASE self.tag = "Master" ->
            InMaster(MasterState_handle_event_receive(self.master, message, timestamp,
                                                      min_delay_req_interval,
                                                      port_identity, buflen))
      [] self.tag = "Slave" ->
            InSlave(SlaveState_handle_event_receive(self.slave, message, timestamp))
      [] self.tag = "Passive" ->
            Outcome(self, MasterState_handle_event_receive(
                              MasterState_new, message, timestamp,
                              min_delay_req_interval, port_identity, buflen).actions)
      [] self.tag = "Listening" -> Outcome(self, <<>>)

PortState_handle_event_receive(self, message, timestamp, min_delay_req_interval, port_identity, buflen) ==
    CASE self.tag = "Master" ->
            InMaster(MasterState_handle_event_receive(self.master, message, timestamp,
                                                      min_delay_req_interval,
                                                      port_identity, buflen))
      [] self.tag = "Slave" ->
            InSlave(SlaveState_handle_event_receive(self.slave, message, timestamp))
      [] self.tag \in {"Listening", "Passive"} -> Outcome(self, <<>>)

\* mutant: a Master that hears a foreign Announce yields and turns Passive
PortState_handle_general_receive_yields(self, message, port_identity) ==
    CASE self.tag = "Master" ->
            IF message.type = "Announce"
               /\ message.header.source_port_identity # port_identity
            THEN Passive
            ELSE self
      [] self.tag = "Slave" ->
            Slave(SlaveState_handle_general_receive(self.slave, message, port_identity))
      [] self.tag \in {"Listening", "Passive"} -> self

PortState_handle_general_receive(self, message, port_identity) ==
    CASE self.tag = "Master" -> self
      [] self.tag = "Slave" ->
            Slave(SlaveState_handle_general_receive(self.slave, message, port_identity))
      [] self.tag \in {"Listening", "Passive"} -> self

\* mutant: a port that is not Master re-arms the sync timer all the same
PortState_send_sync_rearms(self, local_clock, config, port_identity, default_ds, buflen) ==
    CASE self.tag = "Master" ->
            InMaster(MasterState_send_sync(self.master, local_clock, config,
                                           port_identity, default_ds, buflen))
      [] self.tag \in {"Slave", "Listening", "Passive"} ->
            Outcome(self, <<ResetSyncTimer(Interval_as_core_duration(config.sync_interval))>>)

PortState_send_sync(self, local_clock, config, port_identity, default_ds, buflen) ==
    CASE self.tag = "Master" ->
            InMaster(MasterState_send_sync(self.master, local_clock, config,
                                           port_identity, default_ds, buflen))
      [] self.tag \in {"Slave", "Listening", "Passive"} -> Outcome(self, <<>>)

PortState_send_delay_request(self, jitter, port_config, port_identity, default_ds, buflen) ==
    CASE self.tag = "Slave" ->
            InSlave(SlaveState_send_delay_request(self.slave, jitter, port_config,
                                                  port_identity, default_ds, buflen))
      [] self.tag \in {"Master", "Listening", "Passive"} -> Outcome(self, <<>>)

PortState_send_announce(self, global, config, port_identity, buflen) ==
    CASE self.tag = "Master" ->
            InMaster(MasterState_send_announce(self.master, global, config,
                                               port_identity, buflen))
      [] self.tag \in {"Slave", "Listening", "Passive"} -> Outcome(self, <<>>)

\* <<the state left, whether Some(measurement) is returned>>
PortState_extract_measurement(self) ==
    CASE self.tag = "Slave" ->
            LET r == SlaveState_extract_measurement(self.slave)
            IN  <<Slave(r[1]), r[2]>>
      [] self.tag \in {"Master", "Listening", "Passive"} -> <<self, FALSE>>

(***************************************************************************)
(* The inputs the surrounding port hands to the engine.                    *)
(***************************************************************************)
\* clock readings and hardware timestamps: U96F32 nanoseconds
Times ==
    {Time(200000, 500 * SubnanoShift),
     Time(601300, 230 * SubnanoShift + 77),
     Time(220000, 77),
     Time(1000600000, 0)}

\* the identity a port passes for itself
OwnIdentities == {PortIdentity_default, PortIdentity(1, 5)}

\* the sources of received messages: the ports themselves and a foreign port
SourceIdentities == OwnIdentities \cup {PortIdentity(0, 83)}

\* caller buffers: too short for any message, and long enough for each
BufLens == {43, 64}

\* caller buffers on receipt: too short for the DelayResp, and long enough
ReceiveBufLens == {53, 64}

MinDelayReqIntervals == {Interval_from_log_2(2), Interval_from_log_2(5)}

DelayReq(seq, src, corr) ==
    [type |-> "DelayReq",
     header |-> Header(seq, src, corr, 0, FALSE),
     body |-> [origin_timestamp |-> WireTimestamp_from(Time_from_micros(0))]]

\* DelayReqs from each source, with the ids and corrections of test_delay_response
DelayReqs ==
    {DelayReq(f[1], src, f[2]) :
        f \in {<<5123, 400>>, <<879, -200>>}, src \in SourceIdentities}

\* received messages that are not DelayReq, of each type from the sources srcs
OtherMessages(srcs) ==
    {[type |-> "Sync", header |-> Header(0, src, 0, 0, TRUE),
      body |-> [origin_timestamp |-> WireTimestamp_from(Time_from_micros(600))]] :
        src \in srcs}
    \cup
    {[type |-> "FollowUp", header |-> Header(0, src, 230, 0, FALSE),
      body |-> [precise_origin_timestamp |-> WireTimestamp_from(Time_from_micros(600))]] :
        src \in srcs}
    \cup
    {[type |-> "DelayResp", header |-> Header(0, src, 0, 2, FALSE),
      body |-> [receive_timestamp |-> WireTimestamp_from(Time_from_micros(200)),
                requesting_port_identity |-> PortIdentity_default]] :
        src \in srcs}
    \cup
    {[type |-> "Announce", header |-> Header(0, src, 0, 1, FALSE),
      body |-> [origin_timestamp |-> WireTimestamp_from(Time_from_micros(0)),
                grandmaster_priority_1 |-> 15]] :
        src \in srcs}

\* the inputs of the whole-engine specification: one value of each kind
EngineTimes == {Time(601300, 230 * SubnanoShift + 77)}

EngineIntervals == {Interval_from_log_2(2)}

EngineMessages ==
    {DelayReq(5123, PortIdentity(0, 83), 400)} \cup OtherMessages({PortIdentity(0, 83)})

\* DefaultDS::new(InstanceConfig { priority_1: 15, priority_2: 128, .. })
DefaultDS == [priority_1 |-> 15, priority_2 |-> 128, domain_number |-> 0]

\* PortConfig { sync_interval: ONE_SECOND, announce_interval: TWO_SECONDS, .. }
PortConfig ==
    [sync_interval |-> Interval_from_log_2(0),
     announce_interval |-> Interval_from_log_2(1)]

\* PtpInstanceState { default_ds, parent_ds, local_clock, .. }
PtpInstanceState(local_clock) ==
    [default_ds |-> DefaultDS,
     parent_ds |-> [grandmaster_priority_1 |-> 15],
     local_clock |-> local_clock]

\* the jittered durations send_delay_request draws from its rng
Jitters == {1, 3}

\* sequence generator values a port is started from: fresh, and about to wrap
StartIds == {0, U16 - 1}

\* a generator may hand out MaxSends ids from where it started
CanGenerate(cur) == \E s \in StartIds : (cur - s + U16) % U16 < MaxSends

(***************************************************************************)
(* State.                                                                  *)
(***************************************************************************)
VARIABLES
    port_state,     \* the PortState
    port_identity,  \* the identity the port passes to its PortState
    clock_borrowed, \* the clock's AtomicRefCell is exclusively borrowed
    inflight,       \* SendTimeCritical actions awaiting their egress timestamp
    call,           \* the last call made on the PortState, with its arguments
    pre,            \* the PortState that call was made on
    actions,        \* the PortActionIterator that call returned
    extracted,      \* extract_measurement returned Some
    sync_log,       \* ids of the Syncs of the last two send_sync calls on this Master
    announce_log,   \* ids of the Announces of the last two send_announce calls
    sync_timer,     \* the port's sync timer: "running" until it expires
    wire            \* a message body on its way through the wire codec

vars == <<port_state, port_identity, clock_borrowed, inflight, call, pre, actions,
          extracted, sync_log, announce_log, sync_timer, wire>>

\* no message is being encoded or decoded
NoWire == [stage |-> "none"]

\* the SendTimeCritical actions among acts, as the I/O layer queues them; stale
\* marks those whose role has been replaced since
TimeCritical(acts) ==
    {[context |-> acts[i].context, data |-> acts[i].data, stale |-> FALSE] :
        i \in {j \in DOMAIN acts : acts[j].action = "SendTimeCritical"}}

\* the sequence id of the message of the given type that acts sends, or NoId
SentId(acts, type) ==
    LET hits == {i \in DOMAIN acts :
                    /\ acts[i].action \in {"SendTimeCritical", "SendGeneral"}
                    /\ acts[i].data.msg.type = type}
    IN  IF hits = {} THEN NoId
        ELSE acts[CHOOSE i \in hits : TRUE].data.msg.header.sequence_id

\* a port in one of the given states, with nothing in flight and no call made
InitPort(states, identities) ==
    /\ port_state \in states
    /\ port_identity \in identities
    /\ clock_borrowed = FALSE
    /\ inflight = {}
    /\ call = [op |-> "new"]
    /\ pre = port_state
    /\ actions = <<>>
    /\ extracted = FALSE
    /\ sync_log = <<NoId, NoId>>
    /\ announce_log = <<NoId, NoId>>
    /\ sync_timer = "running"

InitWith(states, identities) == InitPort(states, identities) /\ wire = NoWire

\* a port right after construction: PortState::default()
Init == InitWith({PortState_default}, {PortIdentity_default})

(***************************************************************************)
(* The calls of the surrounding port on its PortState.                     *)
(***************************************************************************)
\* a call returns: the state and the actions it leaves
Returns(the_call, out) ==
    /\ call' = the_call
    /\ pre' = port_state
    /\ port_state' = out.state
    /\ actions' = out.actions
    /\ extracted' = FALSE
    /\ UNCHANGED <<port_identity, wire>>

\* sendTimestampAvailable(context, egressHWTimestamp)
HandleTimestamp(times, buflens) ==
    \E e \in inflight, timestamp \in times, buflen \in buflens :
        /\ Returns([op |-> "handle_timestamp", context |-> e.context,
                    sent |-> e.data.msg, stale |-> e.stale,
                    timestamp |-> timestamp, buflen |-> buflen],
                   PortState_handle_timestamp(port_state, e.context, timestamp,
                                              port_identity, DefaultDS, buflen))
        /\ inflight' = inflight \ {e}
        /\ UNCHANGED <<clock_borrowed, sync_log, announce_log, sync_timer>>

\* eventMessageReceived(bytes, ingressHWTimestamp)
HandleEventReceive(messages, times, intervals, buflens) ==
    \E message \in messages, timestamp \in times,
       min_delay_req_interval \in intervals, buflen \in buflens :
        /\ Returns([op |-> "handle_event_receive", message |-> message,
                    timestamp |-> timestamp,
                    min_delay_req_interval |-> min_delay_req_interval,
                    buflen |-> buflen],
                   PortState_handle_event_receive(port_state, message, timestamp,
                                                  min_delay_req_interval,
                                                  port_identity, buflen))
        /\ UNCHANGED <<clock_borrowed, inflight, sync_log, announce_log, sync_timer>>

\* generalMessageReceived(bytes)
HandleGeneralReceive(messages) ==
    \E message \in messages :
        /\ Returns([op |-> "handle_general_receive", message |-> message],
                   Outcome(PortState_handle_general_receive(port_state, message,
                                                            port_identity), <<>>))
        /\ UNCHANGED <<clock_borrowed, inflight, sync_log, announce_log, sync_timer>>

\* the port calls send_sync
SendSyncCall(times, buflens) ==
    /\ Cardinality(inflight) < MaxOutstanding
    /\ port_state.tag = "Master" => CanGenerate(port_state.master.sync_seq_ids)
    /\ \E now \in times, buflen \in buflens :
        LET out == PortState_send_sync(port_state, AtomicRefCell(clock_borrowed, now),
                                       PortConfig, port_identity, DefaultDS, buflen)
        IN  /\ Returns([op |-> "send_sync", now |-> now, busy |-> clock_borrowed,
                        buflen |-> buflen], out)
            /\ inflight' = inflight \cup TimeCritical(out.actions)
            /\ sync_log' = IF port_state.tag = "Master"
                           THEN <<sync_log[2], SentId(out.actions, "Sync")>>
                           ELSE sync_log
            /\ UNCHANGED <<clock_borrowed, announce_log>>

\* the sync timer expires, where the timer itself is left out of the picture
SendSync(times, buflens) == SendSyncCall(times, buflens) /\ UNCHANGED sync_timer

\* the announce timer expires
SendAnnounce(times, buflens) ==
    /\ port_state.tag = "Master" => CanGenerate(port_state.master.announce_seq_ids)
    /\ \E now \in times, buflen \in buflens :
        LET out == PortState_send_announce(
                       port_state,
                       PtpInstanceState(AtomicRefCell(clock_borrowed, now)),
                       PortConfig, port_identity, buflen)
        IN  /\ Returns([op |-> "send_announce", now |-> now, busy |-> clock_borrowed,
                        buflen |-> buflen], out)
            /\ announce_log' = IF port_state.tag = "Master"
                               THEN <<announce_log[2], SentId(out.actions, "Announce")>>
                               ELSE announce_log
            /\ UNCHANGED <<clock_borrowed, inflight, sync_log, sync_timer>>

\* the delay request timer expires
SendDelayRequest(jitters, buflens) ==
    /\ Cardinality(inflight) < MaxOutstanding
    /\ port_state.tag = "Slave" => CanGenerate(port_state.slave.delay_req_ids)
    /\ \E jitter \in jitters, buflen \in buflens :
        LET out == PortState_send_delay_request(port_state, jitter, PortConfig,
                                                port_identity, DefaultDS, buflen)
        IN  /\ Returns([op |-> "send_delay_request", jitter |-> jitter,
                        buflen |-> buflen], out)
            /\ inflight' = inflight \cup TimeCritical(out.actions)
            /\ UNCHANGED <<clock_borrowed, sync_log, announce_log, sync_timer>>

\* the servo asks for the latest measurement
extract_measurement ==
    LET r == PortState_extract_measurement(port_state)
    IN  /\ call' = [op |-> "extract_measurement"]
        /\ pre' = port_state
        /\ port_state' = r[1]
        /\ actions' = <<>>
        /\ extracted' = r[2]
        /\ UNCHANGED <<port_identity, clock_borrowed, inflight, sync_log, announce_log,
                       sync_timer, wire>>

(***************************************************************************)
(* The surroundings of the engine.                                         *)
(***************************************************************************)
\* the state a port enters a role with
FreshState(tag) ==
    CASE tag = "Master" -> Master(MasterState_new)
      [] tag = "Slave" -> Slave(SlaveState_new)
      [] tag = "Passive" -> Passive
      [] tag = "Listening" -> Listening

\* the BMC layer moves the port to another role: the variant is replaced by a
\* fresh one, and what the old role had in flight stays with the I/O layer
set_forced_port_state ==
    \E tag \in {"Listening", "Master", "Passive", "Slave"} \ {port_state.tag} :
        /\ call' = [op |-> "set_forced_port_state", tag |-> tag]
        /\ pre' = port_state
        /\ port_state' = FreshState(tag)
        /\ actions' = <<>>
        /\ extracted' = FALSE
        /\ sync_log' = <<NoId, NoId>>
        /\ announce_log' = <<NoId, NoId>>
        /\ inflight' = {[e EXCEPT !.stale = TRUE] : e \in inflight}
        /\ UNCHANGED <<port_identity, clock_borrowed, sync_timer, wire>>

\* someone takes the clock's exclusive borrow (borrow_mut), or drops it
borrow_mut_clock ==
    /\ ~clock_borrowed
    /\ clock_borrowed' = TRUE
    /\ UNCHANGED <<port_state, port_identity, inflight, call, pre, actions, extracted,
                   sync_log, announce_log, sync_timer, wire>>

drop_clock_borrow ==
    /\ clock_borrowed
    /\ clock_borrowed' = FALSE
    /\ UNCHANGED <<port_state, port_identity, inflight, call, pre, actions, extracted,
                   sync_log, announce_log, sync_timer, wire>>

(***************************************************************************)
(* Spec: the whole engine, every role and the role changes, driven with    *)
(* one input of each kind.                                                 *)
(***************************************************************************)
handle_timestamp == HandleTimestamp(EngineTimes, BufLens)

handle_event_receive ==
    HandleEventReceive(EngineMessages, EngineTimes, EngineIntervals, {64})

handle_general_receive == HandleGeneralReceive(EngineMessages)

send_sync == SendSync(EngineTimes, BufLens)

send_announce == SendAnnounce(EngineTimes, BufLens)

send_delay_request == SendDelayRequest({1}, BufLens)

Next ==
    \/ handle_timestamp
    \/ handle_event_receive
    \/ handle_general_receive
    \/ send_sync
    \/ send_announce
    \/ send_delay_request
    \/ extract_measurement
    \/ set_forced_port_state
    \/ borrow_mut_clock
    \/ drop_clock_borrow

Spec == Init /\ [][Next]_vars

(***************************************************************************)
(* SpecMaster: a port that stays Master, driven with every input.          *)
(***************************************************************************)
\* a Master port whose generators are fresh, or about to wrap
InitMaster == InitWith({Master(MasterState(s, s)) : s \in StartIds}, OwnIdentities)

master_handle_timestamp == HandleTimestamp(Times, BufLens)

\* DelayReqs at every ingress time, interval and buffer; the other messages,
\* which a Master drops whatever the rest, at one
master_handle_event_receive ==
    \/ HandleEventReceive(DelayReqs, Times, MinDelayReqIntervals, ReceiveBufLens)
    \/ HandleEventReceive(OtherMessages(SourceIdentities), EngineTimes,
                          EngineIntervals, BufLens)

master_send_sync == SendSync(EngineTimes, BufLens)

NextMaster ==
    \/ master_handle_timestamp
    \/ master_handle_event_receive
    \/ master_send_sync

SpecMaster == InitMaster /\ [][NextMaster]_vars

(***************************************************************************)
(* SpecSend: a Master port and its two timers, with the shared clock       *)
(* borrowed and released around it.                                        *)
(***************************************************************************)
\* clock readings: test_sync's two
SendTimes == {Time(600000, 248 * SubnanoShift), Time(1000600000, 192 * SubnanoShift)}

sender_send_sync == SendSync(SendTimes, BufLens)

sender_send_announce == SendAnnounce(EngineTimes, BufLens)

sender_handle_timestamp == HandleTimestamp(Times, {64})

NextSend ==
    \/ sender_send_sync
    \/ sender_send_announce
    \/ sender_handle_timestamp
    \/ borrow_mut_clock
    \/ drop_clock_borrow

SpecSend == InitMaster /\ [][NextSend]_vars

(***************************************************************************)
(* SpecTimer: a Master port whose send_sync is driven by its sync timer.   *)
(* The timer is one-shot: it runs until it expires, the expiry calls       *)
(* send_sync, and only a ResetSyncTimer among the returned actions starts  *)
(* it again.  A running timer expires in the end, a borrow of the clock is *)
(* dropped in the end, and the timer does not always expire just while the *)
(* clock is borrowed.                                                      *)
(***************************************************************************)
\* the timer after the port has carried out acts
SyncTimerAfter(acts) ==
    IF \E i \in DOMAIN acts : acts[i].action = "ResetSyncTimer"
    THEN "running"
    ELSE "expired"

sync_timer_expires ==
    /\ sync_timer = "running"
    /\ SendSyncCall(EngineTimes, {64})
    /\ sync_timer' = SyncTimerAfter(actions')

timer_handle_timestamp == HandleTimestamp(EngineTimes, {64})

NextTimer ==
    \/ sync_timer_expires
    \/ timer_handle_timestamp
    \/ borrow_mut_clock
    \/ drop_clock_borrow

FairTimer ==
    /\ WF_vars(sync_timer_expires)
    /\ SF_vars(sync_timer_expires /\ ~clock_borrowed)
    /\ WF_vars(timer_handle_timestamp)
    /\ WF_vars(drop_clock_borrow)

SpecTimer == InitMaster /\ [][NextTimer]_vars /\ FairTimer

(***************************************************************************)
(* SpecCodec: a DelayReq body is written to a buffer by serialize_content  *)
(* and read back from it by deserialize_content.                           *)
(***************************************************************************)
\* seconds: timestamp_wireformat's, none, all of 48 bits, mixed bytes, and one
\* that does not fit 48 bits
CodecSeconds ==
    {U64(1169232218), U64(0), <<0, 65535, 65535, 65535>>, <<0, 258, 772, 1286>>,
     <<1, 0, 0, 5>>}

\* nanoseconds: timestamp_wireformat's, none, the largest below a second, and
\* all of 32 bits
CodecNanos == {U32(174389936), U32(0), U32(999999999), <<65535, 65535>>}

\* Header::default(), and the header of a received DelayReq
CodecHeaders ==
    {Header(0, PortIdentity_default, 0, 0, FALSE),
     Header(5123, PortIdentity(0, 83), 400, 0, FALSE)}

\* caller buffers: too short, exact, and longer; zeroed or filled
CodecBuffers == {[i \in 1 .. n |-> fill] : n \in {9, 10, 12}, fill \in {0, 255}}

InitCodec ==
    /\ InitPort({PortState_default}, {PortIdentity_default})
    /\ \E header \in CodecHeaders, seconds \in CodecSeconds, nanos \in CodecNanos,
          buffer \in CodecBuffers :
            wire = [stage |-> "message",
                    message |-> DelayReqMessage(header,
                                    [seconds |-> seconds, nanos |-> nanos]),
                    buffer |-> buffer,
                    header |-> header,
                    decoded |-> [result |-> "none"]]

serialize_content ==
    /\ wire.stage = "message"
    /\ LET r == DelayReqMessage_serialize_content(wire.message, wire.buffer)
       IN  wire' = [wire EXCEPT
                        !.stage = IF r.result = "Ok" THEN "serialized" ELSE "panicked",
                        !.buffer = r.buffer]
    /\ UNCHANGED <<port_state, port_identity, clock_borrowed, inflight, call, pre,
                   actions, extracted, sync_log, announce_log, sync_timer>>

deserialize_content ==
    /\ wire.stage = "serialized"
    /\ \E header \in CodecHeaders, length \in {9, Len(wire.buffer)} :
        wire' = [wire EXCEPT
                    !.stage = "deserialized",
                    !.header = header,
                    !.buffer = SubSeq(wire.buffer, 1, length),
                    !.decoded = DelayReqMessage_deserialize_content(
                                    header, SubSeq(wire.buffer, 1, length))]
    /\ UNCHANGED <<port_state, port_identity, clock_borrowed, inflight, call, pre,
                   actions, extracted, sync_log, announce_log, sync_timer>>

NextCodec ==
    \/ serialize_content
    \/ deserialize_content

SpecCodec == InitCodec /\ [][NextCodec]_vars

(***************************************************************************)
(* What the claims speak of.                                               *)
(***************************************************************************)
\* the last call was op, made on a port in role tag
Called(op, tag) == call.op = op /\ pre.tag = tag

\* the messages of the given type among the returned actions
Sent(type) ==
    {actions[i].data.msg :
        i \in {j \in DOMAIN actions :
                /\ actions[j].action \in {"SendTimeCritical", "SendGeneral"}
                /\ actions[j].data.msg.type = type}}

\* the call returned exactly one action, a SendGeneral of a message of the type
ReturnsOneGeneral(type) ==
    /\ Len(actions) = 1
    /\ actions[1].action = "SendGeneral"
    /\ actions[1].data.msg.type = type

\* a wire timestamp as a count of whole nanoseconds
WireNanos(w) == w.seconds * NanosPerSecond + w.nanos

\* the calls a port makes on its PortState
EngineOps ==
    {"handle_timestamp", "handle_event_receive", "handle_general_receive",
     "send_sync", "send_announce", "send_delay_request", "extract_measurement"}

\* the last call was handle_event_receive on a Master with a DelayReq from
\* another port and a buffer that holds the DelayResp
ForeignDelayReq ==
    /\ Called("handle_event_receive", "Master")
    /\ call.message.type = "DelayReq"
    /\ call.message.header.source_port_identity # port_identity

\* ... and the Master answered it
AnsweredDelayReq == ForeignDelayReq /\ Sent("DelayResp") # {}

(***************************************************************************)
(* C1: on a Master port, whatever Syncs are outstanding and in whatever    *)
(* order their contexts are redeemed, a FollowUp emitted by                *)
(* handle_timestamp carries the sequenceId of the Sync that was emitted    *)
(* together with the redeemed context.                                     *)
(***************************************************************************)
C1_FollowUpCarriesSyncId ==
    Called("handle_timestamp", "Master") =>
        \A f \in Sent("FollowUp") :
            /\ call.sent.type = "Sync"
            /\ f.header.sequence_id = call.sent.header.sequence_id

\* a FollowUp is emitted for the later of two outstanding Syncs, the earlier
\* one still awaiting its timestamp
C1_Witness ==
    /\ Called("handle_timestamp", "Master")
    /\ Sent("FollowUp") # {}
    /\ \E e \in inflight :
        /\ e.data.msg.type = "Sync"
        /\ call.sent.header.sequence_id = (e.data.msg.header.sequence_id + 1) % U16

(***************************************************************************)
(* C2: handle_timestamp on a Master with context Sync{id}, egress time t   *)
(* and a buffer that holds the FollowUp returns exactly one action, a      *)
(* SendGeneral of a FollowUp whose sequenceId is id and whose              *)
(* preciseOriginTimestamp is t truncated to whole nanoseconds.             *)
(***************************************************************************)
SyncRedeemed ==
    /\ Called("handle_timestamp", "Master")
    /\ call.context.kind = "Sync"
    /\ call.buflen >= HeaderLen + 10

C2_FollowUpTruncatedTime ==
    SyncRedeemed =>
        /\ ReturnsOneGeneral("FollowUp")
        /\ actions[1].data.msg.header.sequence_id = call.context.id
        /\ WireNanos(actions[1].data.msg.body.precise_origin_timestamp)
              = call.timestamp.nanos
        /\ actions[1].data.msg.body.precise_origin_timestamp.nanos < NanosPerSecond

\* the egress time redeemed has a sub-nanosecond part and lies past one second
C2_Witness ==
    /\ SyncRedeemed
    /\ ReturnsOneGeneral("FollowUp")
    /\ call.timestamp.frac > 0
    /\ call.context.id = U16 - 1

\* C2 as stated: the FollowUp's preciseOriginTimestamp equals t itself
C2_FollowUpExactTime ==
    SyncRedeemed =>
        /\ ReturnsOneGeneral("FollowUp")
        /\ actions[1].data.msg.header.sequence_id = call.context.id
        /\ Time_from_wire(actions[1].data.msg.body.precise_origin_timestamp)
              = call.timestamp

(***************************************************************************)
(* C3: within one Master role, two consecutive send_sync calls that each   *)
(* emit a Sync emit different sequenceIds, and likewise two consecutive    *)
(* send_announce calls, whatever timestamps are redeemed and messages      *)
(* received in between.                                                    *)
(***************************************************************************)
C3_ConsecutiveIdsDiffer ==
    /\ (sync_log[1] # NoId /\ sync_log[2] # NoId) => sync_log[1] # sync_log[2]
    /\ (announce_log[1] # NoId /\ announce_log[2] # NoId)
          => announce_log[1] # announce_log[2]

\* two Syncs and two Announces have been emitted, and a message was received
\* on the Master since
C3_Witness ==
    /\ sync_log[1] # NoId /\ sync_log[2] # NoId
    /\ announce_log[1] # NoId /\ announce_log[2] # NoId
    /\ Called("handle_event_receive", "Master")

(***************************************************************************)
(* C4: a DelayReq from another port, received on a Master with a buffer    *)
(* that holds the DelayResp, is answered by exactly one action, a          *)
(* SendGeneral of a DelayResp whose requestingPortIdentity is the          *)
(* DelayReq's sourcePortIdentity, whose sequenceId is the DelayReq's and   *)
(* whose logMessageInterval is the log2 of min_delay_req_interval.         *)
(***************************************************************************)
C4_DelayRespAnswersDelayReq ==
    (ForeignDelayReq /\ call.buflen >= HeaderLen + 20) =>
        /\ ReturnsOneGeneral("DelayResp")
        /\ actions[1].data.msg.body.requesting_port_identity
              = call.message.header.source_port_identity
        /\ actions[1].data.msg.header.sequence_id = call.message.header.sequence_id
        /\ actions[1].data.msg.header.log_message_interval
              = call.min_delay_req_interval.log_2

\* DelayReq 5123 from port 83 is answered under an interval of 2^2 s
C4_Witness ==
    /\ ForeignDelayReq
    /\ ReturnsOneGeneral("DelayResp")
    /\ call.message.header.sequence_id = 5123
    /\ call.message.header.source_port_identity = PortIdentity(0, 83)
    /\ call.min_delay_req_interval = Interval_from_log_2(2)

(***************************************************************************)
(* C5: the DelayResp that answers a DelayReq carries as receiveTimestamp   *)
(* the ingress time truncated to whole nanoseconds, and as correctionField *)
(* the DelayReq's correctionField plus the ingress time's sub-nanosecond   *)
(* residue in units of 2^-16 ns.                                           *)
(***************************************************************************)
C5_DelayRespTimeAndCorrection ==
    AnsweredDelayReq =>
        \A r \in Sent("DelayResp") :
            /\ WireNanos(r.body.receive_timestamp) = call.timestamp.nanos
            /\ r.body.receive_timestamp.nanos < NanosPerSecond
            /\ r.header.correction_field
                  = call.message.header.correction_field
                    + call.timestamp.frac \div SubnanoShift

\* request correction 400 and residue 500 give 900
C5_Witness ==
    /\ AnsweredDelayReq
    /\ call.message.header.correction_field = 400
    /\ call.timestamp = Time(200000, 500 * SubnanoShift)
    /\ \E r \in Sent("DelayResp") :
        /\ r.header.correction_field = 900
        /\ r.body.receive_timestamp = [seconds |-> 0, nanos |-> 200000]

(***************************************************************************)
(* C6: the DelayResp that answers a DelayReq carries the DelayReq's        *)
(* correctionField unchanged exactly when the ingress time has no          *)
(* sub-nanosecond residue of 2^-16 ns or more; otherwise the residue is    *)
(* added to it.                                                            *)
(***************************************************************************)
C6_CorrectionUnchangedIffNoResidue ==
    AnsweredDelayReq =>
        \A r \in Sent("DelayResp") :
            /\ (r.header.correction_field = call.message.header.correction_field)
                  <=> (call.timestamp.frac < SubnanoShift)
            /\ r.header.correction_field >= call.message.header.correction_field

\* a DelayReq is answered whose ingress time has a residue: the correction grows
C6_Witness ==
    /\ AnsweredDelayReq
    /\ call.timestamp.frac >= SubnanoShift
    /\ \E r \in Sent("DelayResp") :
        r.header.correction_field > call.message.header.correction_field

\* C6 as stated: the correctionField is the request's, unchanged
C6_CorrectionUnchanged ==
    AnsweredDelayReq =>
        \A r \in Sent("DelayResp") :
            r.header.correction_field = call.message.header.correction_field

(***************************************************************************)
(* C7: an event message of any type whose sourcePortIdentity is the        *)
(* Master port's own identity produces no action and leaves the            *)
(* MasterState as it was.                                                  *)
(***************************************************************************)
SelfSourced ==
    /\ Called("handle_event_receive", "Master")
    /\ call.message.header.source_port_identity = port_identity

C7_SelfEchoDropped == SelfSourced => (actions = <<>> /\ port_state = pre)

\* a DelayReq of the port's own, received with a buffer that would hold the answer
C7_Witness ==
    /\ SelfSourced
    /\ call.message.type = "DelayReq"
    /\ call.buflen >= HeaderLen + 20
    /\ actions = <<>>

(***************************************************************************)
(* C8: send_sync and send_announce on a port that is not Master, and       *)
(* send_delay_request on a port that is not Slave, return no action;       *)
(* extract_measurement on a port that is not Slave returns None; each      *)
(* leaves the port state as it was.                                        *)
(***************************************************************************)
WrongRole ==
    \/ call.op \in {"send_sync", "send_announce"} /\ pre.tag # "Master"
    \/ call.op \in {"send_delay_request", "extract_measurement"} /\ pre.tag # "Slave"

C8_WrongRoleDoesNothing ==
    WrongRole => (actions = <<>> /\ ~extracted /\ port_state = pre)

\* send_sync on a Slave that awaits a DelayReq timestamp
C8_Witness ==
    /\ Called("send_sync", "Slave")
    /\ pre.slave.delay = "AwaitTimestamp"
    /\ actions = <<>>

(***************************************************************************)
(* C9: in Listening and in Passive every call on the port state returns    *)
(* no action and leaves the port state as it was.                          *)
(***************************************************************************)
C9_ListeningPassiveAbsorb ==
    (call.op \in EngineOps /\ pre.tag \in {"Listening", "Passive"}) =>
        (actions = <<>> /\ ~extracted /\ port_state = pre)

\* the timestamp of a Sync sent as Master arrives when the port is Passive
C9_Witness ==
    /\ Called("handle_timestamp", "Passive")
    /\ call.context.kind = "Sync"
    /\ actions = <<>>

(***************************************************************************)
(* C10: no call on the port state changes its role tag.                    *)
(***************************************************************************)
C10_TagUnchanged == call.op \in EngineOps => port_state.tag = pre.tag

\* a Master that received a Sync of a foreign master is a Master still
C10_Witness ==
    /\ Called("handle_event_receive", "Master")
    /\ call.message.type = "Sync"
    /\ call.message.header.source_port_identity # port_identity
    /\ port_state.tag = "Master"

(***************************************************************************)
(* C11: send_sync and send_announce on a Master whose clock is exclusively *)
(* borrowed return no action, no Reset*Timer among them, and leave the     *)
(* MasterState, its sequence counter included, as it was; when the same    *)
(* send is called next and emits its message, the message carries the      *)
(* sequenceId the counter held at the dropped call.                        *)
(***************************************************************************)
BusySend ==
    /\ call.op \in {"send_sync", "send_announce"}
    /\ pre.tag = "Master"
    /\ call.busy

\* the counter the dropped send would have drawn its id from
OwedId ==
    IF call.op = "send_sync"
    THEN pre.master.sync_seq_ids
    ELSE pre.master.announce_seq_ids

C11_Step ==
    /\ BusySend' => (actions' = <<>> /\ port_state' = pre')
    /\ (BusySend /\ call'.op = call.op /\ actions' # <<>>) =>
          SentId(actions', IF call.op = "send_sync" THEN "Sync" ELSE "Announce")
              = OwedId

C11_ClockBusyDropsSend == [][C11_Step]_vars

\* a send_sync was dropped on a busy clock after one Sync had been emitted,
\* and that Sync still awaits its timestamp
C11_Witness ==
    /\ BusySend
    /\ call.op = "send_sync"
    /\ actions = <<>>
    /\ sync_log[1] # NoId
    /\ inflight # {}

(***************************************************************************)
(* C12: the sync sequence counter of a Master advances whenever send_sync  *)
(* gets as far as serializing: a send_sync dropped on a busy clock leaves  *)
(* the counter as it was, every other send_sync advances it by one modulo  *)
(* 2^16, the one that returns no action because the Sync did not fit the   *)
(* buffer included.                                                        *)
(***************************************************************************)
C12_CounterAdvancedOnAttempt ==
    Called("send_sync", "Master") =>
        /\ port_state.master.sync_seq_ids
              = IF call.busy
                THEN pre.master.sync_seq_ids
                ELSE (pre.master.sync_seq_ids + 1) % U16
        /\ (actions = <<>>) <=> (call.busy \/ call.buflen < HeaderLen + 10)

\* a send_sync with the clock free and a buffer too short for the Sync
\* returned nothing and moved the counter from 65535 to 0
C12_Witness ==
    /\ Called("send_sync", "Master")
    /\ ~call.busy
    /\ call.buflen < HeaderLen + 10
    /\ actions = <<>>
    /\ pre.master.sync_seq_ids = U16 - 1
    /\ port_state.master.sync_seq_ids = 0

\* C12 as stated: a send_sync that returns no action leaves the counter
C12_CounterOnlyOnSuccess ==
    (Called("send_sync", "Master") /\ actions = <<>>) =>
        port_state.master.sync_seq_ids = pre.master.sync_seq_ids

(***************************************************************************)
(* C13: a TimestampContext minted under a role that has since been         *)
(* replaced, a Master left and entered again with a fresh MasterState      *)
(* included, produces no action when it is redeemed through                *)
(* handle_timestamp.                                                       *)
(***************************************************************************)
C13_StaleContextDropped ==
    (call.op = "handle_timestamp" /\ call.stale) => actions = <<>>

(***************************************************************************)
(* C14: when a send_sync on a Master is dropped because the clock is busy, *)
(* a Sync is emitted again later: the sync timer, started by the           *)
(* ResetSyncTimer actions of the engine, expires again and the send is     *)
(* retried with the clock free.                                            *)
(***************************************************************************)
SyncDroppedOnBusy == Called("send_sync", "Master") /\ call.busy /\ actions = <<>>

SyncEmitted == Called("send_sync", "Master") /\ Sent("Sync") # {}

C14_BusySyncRetried == SyncDroppedOnBusy ~> SyncEmitted

(***************************************************************************)
(* C15: a send_sync on a Master with the clock free and a buffer that      *)
(* holds the Sync returns exactly two actions, in this order:              *)
(* ResetSyncTimer with the configured sync interval, then SendTimeCritical *)
(* of a Sync with context Sync{seq}, seq being the sequenceId in the       *)
(* Sync's header; and a send_sync returns actions in no other case.        *)
(***************************************************************************)
SyncSendable ==
    /\ Called("send_sync", "Master")
    /\ ~call.busy
    /\ call.buflen >= HeaderLen + 10

C15_SendSyncActions ==
    /\ (call.op = "send_sync" /\ actions # <<>>) => SyncSendable
    /\ SyncSendable =>
        /\ Len(actions) = 2
        /\ actions[1]
              = ResetSyncTimer(Interval_as_core_duration(PortConfig.sync_interval))
        /\ actions[2].action = "SendTimeCritical"
        /\ actions[2].context.kind = "Sync"
        /\ actions[2].data.msg.type = "Sync"
        /\ actions[2].context.id = actions[2].data.msg.header.sequence_id
        /\ actions[2].data.length = HeaderLen + 10

\* the Sync numbered 0 is sent while the Sync numbered 65535 awaits its timestamp
C15_Witness ==
    /\ SyncSendable
    /\ Len(actions) = 2
    /\ actions[2].context = Context_Sync(0)
    /\ \E e \in inflight : e.context = Context_Sync(U16 - 1)

(***************************************************************************)
(* C16: the Sync emitted by send_sync carries as originTimestamp the clock *)
(* reading truncated to whole nanoseconds and correctionField 0; the       *)
(* FollowUp emitted by handle_timestamp carries as preciseOriginTimestamp  *)
(* the egress time truncated to whole nanoseconds and as correctionField   *)
(* the egress time's sub-nanosecond residue in units of 2^-16 ns.          *)
(***************************************************************************)
C16_SyncAndFollowUpTimes ==
    /\ Called("send_sync", "Master") =>
          \A m \in Sent("Sync") :
              /\ WireNanos(m.body.origin_timestamp) = call.now.nanos
              /\ m.body.origin_timestamp.nanos < NanosPerSecond
              /\ m.header.correction_field = 0
    /\ Called("handle_timestamp", "Master") =>
          \A f \in Sent("FollowUp") :
              /\ WireNanos(f.body.precise_origin_timestamp) = call.timestamp.nanos
              /\ f.body.precise_origin_timestamp.nanos < NanosPerSecond
              /\ f.header.correction_field = call.timestamp.frac \div SubnanoShift

\* test_sync: the Sync stamped 1000600000 ns + 192/65536 ns went out with
\* 1 s 600000 ns, and its egress time 601300 ns + 230/65536 ns gives a
\* FollowUp of 601300 ns with correction 230
C16_Witness ==
    /\ Called("handle_timestamp", "Master")
    /\ call.sent.body.origin_timestamp = [seconds |-> 1, nanos |-> 600000]
    /\ call.sent.header.correction_field = 0
    /\ call.timestamp.frac = 230 * SubnanoShift + 77
    /\ \E f \in Sent("FollowUp") :
        /\ f.body.precise_origin_timestamp = [seconds |-> 0, nanos |-> 601300]
        /\ f.header.correction_field = 230

(***************************************************************************)
(* C17: the sequence generators of a MasterState are 16-bit counters that  *)
(* hand out their current value and then step by one, wrapping from 65535  *)
(* to 0: a Sync (an Announce) carries the value its counter held and       *)
(* leaves the counter one further modulo 65536; of two send_sync (two      *)
(* send_announce) calls in a row that both emit, the second carries the    *)
(* first's sequenceId plus 1 modulo 65536; and no call on the Master sets  *)
(* a counter back: each call leaves each counter where it was or one       *)
(* further.                                                                *)
(***************************************************************************)
\* b is a, or a stepped once
SameOrNext(a, b) == b = a \/ b = (a + 1) % U16

C17_CountersWrapAndRun ==
    /\ (Called("send_sync", "Master") /\ Sent("Sync") # {}) =>
          /\ SentId(actions, "Sync") = pre.master.sync_seq_ids
          /\ port_state.master.sync_seq_ids = (SentId(actions, "Sync") + 1) % U16
    /\ (Called("send_announce", "Master") /\ Sent("Announce") # {}) =>
          /\ SentId(actions, "Announce") = pre.master.announce_seq_ids
          /\ port_state.master.announce_seq_ids
                = (SentId(actions, "Announce") + 1) % U16
    /\ (sync_log[1] # NoId /\ sync_log[2] # NoId) =>
          sync_log[2] = (sync_log[1] + 1) % U16
    /\ (announce_log[1] # NoId /\ announce_log[2] # NoId) =>
          announce_log[2] = (announce_log[1] + 1) % U16
    /\ (call.op \in EngineOps /\ pre.tag = "Master") =>
          /\ SameOrNext(pre.master.sync_seq_ids, port_state.master.sync_seq_ids)
          /\ SameOrNext(pre.master.announce_seq_ids,
                        port_state.master.announce_seq_ids)
          /\ port_state.master.sync_seq_ids \in 0 .. U16 - 1
          /\ port_state.master.announce_seq_ids \in 0 .. U16 - 1

\* the Syncs and the Announces both went from 65535 to 0
C17_Witness ==
    /\ sync_log = <<U16 - 1, 0>>
    /\ announce_log = <<U16 - 1, 0>>
    /\ port_state.master = MasterState(1, 1)

(***************************************************************************)
(* C18: the Sync and the Announce counter of a Master are independent:     *)
(* send_announce leaves the sync counter and send_sync the announce        *)
(* counter as it was, and what a send returns does not depend on the other *)
(* class's counter, so the Sync ids come out the same whatever Announce    *)
(* sends are interleaved, and the Announce ids whatever Sync sends.        *)
(***************************************************************************)
\* values the other class's counter could have had instead
OtherCounters == {0, 1, U16 - 1}

C18_CountersIndependent ==
    /\ Called("send_sync", "Master") =>
          /\ port_state.master.announce_seq_ids = pre.master.announce_seq_ids
          /\ \A a \in OtherCounters :
                actions = MasterState_send_sync(
                              [pre.master EXCEPT !.announce_seq_ids = a],
                              AtomicRefCell(call.busy, call.now), PortConfig,
                              port_identity, DefaultDS, call.buflen).actions
    /\ Called("send_announce", "Master") =>
          /\ port_state.master.sync_seq_ids = pre.master.sync_seq_ids
          /\ \A a \in OtherCounters :
                actions = MasterState_send_announce(
                              [pre.master EXCEPT !.sync_seq_ids = a],
                              PtpInstanceState(AtomicRefCell(call.busy, call.now)),
                              PortConfig, port_identity, call.buflen).actions

\* the first Announce, numbered 65535, goes out after two Syncs took the sync
\* counter from 65535 to 1
C18_Witness ==
    /\ Called("send_announce", "Master")
    /\ SentId(actions, "Announce") = U16 - 1
    /\ sync_log = <<U16 - 1, 0>>
    /\ port_state.master = MasterState(0, 1)

(***************************************************************************)
(* C19: the DelayReq body round-trips through the wire codec: for every    *)
(* origin timestamp of 48-bit seconds and 32-bit nanoseconds,              *)
(* serialize_content writes 10 bytes, the seconds big-endian and then the  *)
(* nanoseconds big-endian, and leaves the rest of the buffer alone;        *)
(* deserialize_content of those bytes with the same header returns a       *)
(* message equal to the original.                                          *)
(***************************************************************************)
\* the seconds of the message fit 48 bits
Seconds48 == wire.message.origin_timestamp.seconds[1] = 0

\* the big-endian bytes of 16-bit limb l are b1 b2
BigEndian(l, b1, b2) == b1 \in 0 .. 255 /\ b2 \in 0 .. 255 /\ l = b1 * 256 + b2

C19_DelayReqRoundTrip ==
    /\ (wire.stage = "serialized" /\ Seconds48) =>
          LET ts == wire.message.origin_timestamp
              b == wire.buffer
          IN  /\ Len(b) >= 10
              /\ \A k \in 1 .. 3 : BigEndian(ts.seconds[k + 1], b[2 * k - 1], b[2 * k])
              /\ \A k \in 1 .. 2 : BigEndian(ts.nanos[k], b[2 * k + 5], b[2 * k + 6])
              /\ \A i \in 11 .. Len(b) : b[i] \in {0, 255}
    /\ (wire.stage = "deserialized" /\ Seconds48 /\ Len(wire.buffer) >= 10
            /\ wire.header = wire.message.header) =>
          wire.decoded = [result |-> "Ok", message |-> wire.message]

\* timestamp_wireformat: 1169232218 s 174389936 ns went through the bytes
\* 00 00 45 b1 11 5a 0a 64 fa b0 and came back, under a header that is not
\* the default one
C19_Witness ==
    /\ wire.stage = "deserialized"
    /\ wire.message.origin_timestamp
          = [seconds |-> U64(1169232218), nanos |-> U32(174389936)]
    /\ wire.buffer = <<0, 0, 69, 177, 17, 90, 10, 100, 250, 176>>
    /\ wire.message.header.sequence_id = 5123
    /\ wire.decoded = [result |-> "Ok", message |-> wire.message]

(***************************************************************************)
(* C20: handle_timestamp on a Master with a context that is not Sync{id},  *)
(* a DelayReq context for one, returns no action and leaves the            *)
(* MasterState as it was.                                                  *)
(***************************************************************************)
C20_NonSyncContextIgnored ==
    (Called("handle_timestamp", "Master") /\ call.context.kind # "Sync") =>
        (actions = <<>> /\ port_state = pre)

\* the timestamp of a DelayReq sent as Slave arrives when the port is a Master
\* that has sent a Sync, with a buffer that would hold a FollowUp
C20_Witness ==
    /\ Called("handle_timestamp", "Master")
    /\ call.context.kind = "DelayReq"
    /\ call.buflen >= HeaderLen + 10
    /\ pre.master.sync_seq_ids = 1
    /\ actions = <<>>

(***************************************************************************)
(* C21: an event message that is not a DelayReq (a Sync, a FollowUp, a     *)
(* DelayResp, an Announce), from whatever source, is dropped by a Master:  *)
(* handle_event_receive returns no action and leaves the MasterState as it *)
(* was.                                                                    *)
(***************************************************************************)
NotDelayReq ==
    /\ Called("handle_event_receive", "Master")
    /\ call.message.type # "DelayReq"

C21_OtherEventsDropped == NotDelayReq => (actions = <<>> /\ port_state = pre)

\* the Sync of a foreign master reaches a Master that has a Sync of its own
\* in flight, with a buffer that would hold an answer
C21_Witness ==
    /\ NotDelayReq
    /\ call.message.type = "Sync"
    /\ call.message.header.source_port_identity = PortIdentity(0, 83)
    /\ call.buflen >= HeaderLen + 20
    /\ inflight # {}
    /\ actions = <<>>

(***************************************************************************)
(* C22: in every response of a Master a timer reset and its message go     *)
(* together: ResetSyncTimer is among the actions exactly when a            *)
(* SendTimeCritical of a Sync is, ResetAnnounceTimer exactly when a        *)
(* SendGeneral of an Announce is, and no response holds more than two      *)
(* actions.                                                                *)
(***************************************************************************)
\* an action of the given kind is among those returned
Returned(kind) == \E i \in DOMAIN actions : actions[i].action = kind

\* a send of the given kind of a message of the given type is among them
ReturnedSend(kind, type) ==
    \E i \in DOMAIN actions :
        actions[i].action = kind /\ actions[i].data.msg.type = type

C22_TimerResetIffMessage ==
    (call.op \in EngineOps /\ pre.tag = "Master") =>
        /\ Returned("ResetSyncTimer") <=> ReturnedSend("SendTimeCritical", "Sync")
        /\ Returned("ResetAnnounceTimer") <=> ReturnedSend("SendGeneral", "Announce")
        /\ ~ReturnedSend("SendGeneral", "Sync")
        /\ ~ReturnedSend("SendTimeCritical", "Announce")
        /\ Len(actions) <= 2

\* the second Announce of a Master goes out together with its timer reset,
\* while a Sync awaits its timestamp
C22_Witness ==
    /\ Called("send_announce", "Master")
    /\ Returned("ResetAnnounceTimer")
    /\ ReturnedSend("SendGeneral", "Announce")
    /\ announce_log = <<0, 1>>
    /\ inflight # {}

(***************************************************************************)
(* C23: received traffic and redeemed timestamps do not touch the          *)
(* numbering of a Master: handle_event_receive, handle_general_receive and *)
(* handle_timestamp leave both sequence counters as they were; the         *)
(* DelayResp and the FollowUp they return are the same whatever the        *)
(* counters hold; and the Sync and the Announce sent next carry the ids    *)
(* they would have carried without the call.                               *)
(***************************************************************************)
ReceiveOps == {"handle_event_receive", "handle_general_receive", "handle_timestamp"}

\* MasterStates with other histories of sends behind them
OtherMasterStates == {MasterState(a, s) : a \in OtherCounters, s \in OtherCounters}

\* the ids of the Sync and of the Announce that master would send now, the
\* clock being free and the buffer long enough
NextIds(master) ==
    <<SentId(MasterState_send_sync(master, AtomicRefCell(FALSE, Time(0, 0)), PortConfig,
                                   port_identity, DefaultDS, 64).actions, "Sync"),
      SentId(MasterState_send_announce(master,
                                       PtpInstanceState(AtomicRefCell(FALSE, Time(0, 0))),
                                       PortConfig, port_identity, 64).actions,
             "Announce")>>

C23_ReceiveKeepsNumbering ==
    (call.op \in ReceiveOps /\ pre.tag = "Master") =>
        /\ port_state.master.sync_seq_ids = pre.master.sync_seq_ids
        /\ port_state.master.announce_seq_ids = pre.master.announce_seq_ids
        /\ NextIds(port_state.master) = NextIds(pre.master)
        /\ NextIds(port_state.master)
              = <<pre.master.sync_seq_ids, pre.master.announce_seq_ids>>
        /\ call.op = "handle_event_receive" =>
              \A other \in OtherMasterStates :
                  actions = MasterState_handle_event_receive(
                                other, call.message, call.timestamp,
                                call.min_delay_req_interval, port_identity,
                                call.buflen).actions
        /\ call.op = "handle_timestamp" =>
              \A other \in OtherMasterStates :
                  actions = MasterState_handle_timestamp(
                                other, call.context, call.timestamp, port_identity,
                                DefaultDS, call.buflen).actions

\* a DelayReq is answered by a Master that has sent two Syncs and an Announce
C23_Witness ==
    /\ Called("handle_event_receive", "Master")
    /\ Sent("DelayResp") # {}
    /\ port_state.master = MasterState(1, 2)

====
